---- MODULE Spec2Model ----
(***************************************************************************)
(* Model of src/commands/status-all/providers.ts: the status report of the *)
(* seven messaging providers (buildProvidersTable) and its helpers         *)
(* summarizeSources, existsSyncMaybe, sha256HexPrefix and formatTokenHint. *)
(*                                                                         *)
(* JavaScript values.  A string is a TLA+ string.  An optional value       *)
(* (string | undefined, boolean | undefined, ...) is a tuple: <<>> is      *)
(* undefined (or null) and <<v>> is the value v.                           *)
(***************************************************************************)
EXTENDS Integers, Sequences, FiniteSets, TLC

VARIABLES
  pc,    \* "call": a call is about to run; "returned"; "threw" (the promise rejected)
  fn,    \* the function the call is to
  cfg,   \* buildProvidersTable: the ClawdbotConfig with the accounts its resolvers return
  opts,  \* buildProvidersTable: the optional { showSecrets?: boolean }
  ext,   \* buildProvidersTable: what the external probes and process.env answer
  args,  \* formatTokenHint / summarizeSources: the arguments
  sha,   \* node:crypto's SHA-256 digest (hex) of each credential in play
  ret    \* the value returned

vars == <<pc, fn, cfg, opts, ext, args, sha, ret>>

(***************************************************************************)
(* Bounds of the model.                                                    *)
(***************************************************************************)
MaxAccounts == 2

MaxTokenLen == 12

MaxSources == 3

(***************************************************************************)
(* JavaScript strings and optional values.                                 *)
(***************************************************************************)
Undefined == <<>>

Some(v) == <<v>>

WhiteSpace == {" ", "\t", "\n", "\r"}

CharAt(s, i) == SubSeq(s, i, i)

RECURSIVE TrimStart(_)
TrimStart(s) ==
  IF s = "" THEN ""
  ELSE IF CharAt(s, 1) \in WhiteSpace THEN TrimStart(SubSeq(s, 2, Len(s)))
  ELSE s

RECURSIVE TrimEnd(_)
TrimEnd(s) ==
  IF s = "" THEN ""
  ELSE IF CharAt(s, Len(s)) \in WhiteSpace THEN TrimEnd(SubSeq(s, 1, Len(s) - 1))
  ELSE s

\* String.prototype.trim
Trim(s) == TrimEnd(TrimStart(s))

\* o?.trim(): undefined stays undefined
OptTrim(o) == IF o = Undefined THEN Undefined ELSE Some(Trim(o[1]))

\* Truthiness of a string | undefined: defined and not ""
Truthy(o) == o # Undefined /\ o[1] # ""

\* o?.trim() || "": the trimmed string, "" when undefined
TrimOrEmpty(o) == IF Truthy(OptTrim(o)) THEN Trim(o[1]) ELSE ""

\* Array.prototype.join
RECURSIVE Join(_, _)
Join(parts, sep) ==
  IF parts = <<>> THEN ""
  ELSE IF Len(parts) = 1 THEN parts[1]
  ELSE parts[1] \o sep \o Join(SubSeq(parts, 2, Len(parts)), sep)

\* n || 1 for a length n
OrOne(n) == IF n = 0 THEN 1 ELSE n

\* The characters U+00D7, U+00B7 and U+2026 of the template strings.  The
\* ellipsis is outside the characters a TLA+ string may hold: "~" stands for
\* it, one character like the original.
Times == "×"

Dot == " · "

Ellipsis == "~"

(***************************************************************************)
(* SHA-256 (FIPS 180-4) as computed by crypto.createHash("sha256").  A     *)
(* 32-bit word is a pair <<hi, lo>> of 16-bit halves, so that no           *)
(* intermediate value leaves the range of TLC's integers.                  *)
(***************************************************************************)
Sha256K ==
  <<
     <<17034, 12184>>, <<28983, 17553>>, <<46528, 64463>>, <<59829, 56229>>,
     <<14678, 49755>>, <<23025, 4593>>, <<37439, 33444>>, <<43804, 24277>>,
     <<55303, 43672>>, <<4739, 23297>>, <<9265, 34238>>, <<21772, 32195>>,
     <<29374, 23924>>, <<32990, 45566>>, <<39900, 1703>>, <<49563, 61812>>,
     <<58523, 27073>>, <<61374, 18310>>, <<4033, 40390>>, <<9228, 41420>>,
     <<11753, 11375>>, <<19060, 33962>>, <<23728, 43484>>, <<30457, 35034>>,
     <<38974, 20818>>, <<43057, 50797>>, <<45059, 10184>>, <<48985, 32711>>,
     <<50912, 3059>>, <<54695, 37191>>, <<1738, 25425>>, <<5161, 10599>>,
     <<10167, 2693>>, <<11803, 8504>>, <<19756, 28156>>, <<21304, 3347>>,
     <<25866, 29524>>, <<30314, 2747>>, <<33218, 51502>>, <<37490, 11397>>,
     <<41663, 59553>>, <<43034, 26187>>, <<49739, 35696>>, <<51052, 20899>>,
     <<53650, 59417>>, <<54937, 1572>>, <<62478, 13701>>, <<4202, 41072>>,
     <<6564, 49430>>, <<7735, 27656>>, <<10056, 30540>>, <<13488, 48309>>,
     <<14620, 3251>>, <<20184, 43594>>, <<23452, 51791>>, <<26670, 28659>>,
     <<29839, 33518>>, <<30885, 25455>>, <<33992, 30740>>, <<36039, 520>>,
     <<37054, 65530>>, <<42064, 27883>>, <<48889, 41975>>, <<50801, 30962>>
  >>

Sha256H0 ==
  <<
     <<27145, 58983>>, <<47975, 44677>>, <<15470, 62322>>, <<42319, 62778>>,
     <<20750, 21119>>, <<39685, 26764>>, <<8067, 55723>>, <<23520, 52505>>
  >>

AsciiLow ==
  " !\"#$%&'()*+,-./0123456789:;<=>?@ABCDEFGHIJKLMNOPQRSTUVWXYZ[\\]^_"

AsciiHigh == "abcdefghijklmnopqrstuvwxyz{|}~"

IndexOf(c, s) == CHOOSE i \in 1..Len(s) : CharAt(s, i) = c

\* The UTF-8 byte of an ASCII character
CharCode(c) ==
  IF c = "\t" THEN 9
  ELSE IF c = "\n" THEN 10
  ELSE IF c = "\r" THEN 13
  ELSE IF \E i \in 1..Len(AsciiLow) : CharAt(AsciiLow, i) = c
       THEN 31 + IndexOf(c, AsciiLow)
       ELSE 96 + IndexOf(c, AsciiHigh)

RECURSIVE Xor3(_, _, _, _)
Xor3(a, b, c, n) ==
  IF n = 0 THEN 0
  ELSE ((a + b + c) % 2) + 2 * Xor3(a \div 2, b \div 2, c \div 2, n - 1)

RECURSIVE Ch16(_, _, _, _)
Ch16(e, f, g, n) ==
  IF n = 0 THEN 0
  ELSE (IF e % 2 = 1 THEN f % 2 ELSE g % 2)
       + 2 * Ch16(e \div 2, f \div 2, g \div 2, n - 1)

RECURSIVE Maj16(_, _, _, _)
Maj16(a, b, c, n) ==
  IF n = 0 THEN 0
  ELSE (((a % 2) + (b % 2) + (c % 2)) \div 2)
       + 2 * Maj16(a \div 2, b \div 2, c \div 2, n - 1)

WXor3(x, y, z) == <<Xor3(x[1], y[1], z[1], 16), Xor3(x[2], y[2], z[2], 16)>>

WCh(e, f, g) == <<Ch16(e[1], f[1], g[1], 16), Ch16(e[2], f[2], g[2], 16)>>

WMaj(a, b, c) == <<Maj16(a[1], b[1], c[1], 16), Maj16(a[2], b[2], c[2], 16)>>

RotrSmall(w, n) ==
  LET p == 2 ^ n
      q == 2 ^ (16 - n)
  IN  <<(w[1] \div p) + (w[2] % p) * q, (w[2] \div p) + (w[1] % p) * q>>

Rotr(w, n) == IF n < 16 THEN RotrSmall(w, n) ELSE RotrSmall(<<w[2], w[1]>>, n - 16)

Shr(w, n) ==
  LET p == 2 ^ n
      q == 2 ^ (16 - n)
  IN  <<w[1] \div p, (w[2] \div p) + (w[1] % p) * q>>

WSum(ws) ==
  LET lo == ws[1][2] + ws[2][2] + ws[3][2] + ws[4][2] + ws[5][2]
      hi == ws[1][1] + ws[2][1] + ws[3][1] + ws[4][1] + ws[5][1]
  IN  <<(hi + (lo \div 65536)) % 65536, lo % 65536>>

Zero32 == <<0, 0>>

BigSigma0(x) == WXor3(Rotr(x, 2), Rotr(x, 13), Rotr(x, 22))
BigSigma1(x) == WXor3(Rotr(x, 6), Rotr(x, 11), Rotr(x, 25))
SmallSigma0(x) == WXor3(Rotr(x, 7), Rotr(x, 18), Shr(x, 3))
SmallSigma1(x) == WXor3(Rotr(x, 17), Rotr(x, 19), Shr(x, 10))

RECURSIVE Sha256Schedule(_)
Sha256Schedule(w) ==
  IF Len(w) = 64 THEN w
  ELSE LET t == Len(w) + 1
       IN  Sha256Schedule(Append(w,
             WSum(<<SmallSigma1(w[t - 2]), w[t - 7], SmallSigma0(w[t - 15]),
                    w[t - 16], Zero32>>)))

Sha256Round(s, w, t) ==
  LET t1 == WSum(<<s[8], BigSigma1(s[5]), WCh(s[5], s[6], s[7]),
                   Sha256K[t], w[t]>>)
      t2 == WSum(<<BigSigma0(s[1]), WMaj(s[1], s[2], s[3]),
                   Zero32, Zero32, Zero32>>)
  IN  <<WSum(<<t1, t2, Zero32, Zero32, Zero32>>), s[1], s[2], s[3],
        WSum(<<s[4], t1, Zero32, Zero32, Zero32>>), s[5], s[6], s[7]>>

(* Rounds from..to, split in halves so that the evaluation stays shallow. *)
RECURSIVE Sha256Rounds(_, _, _, _)
Sha256Rounds(s, w, from, to) ==
  IF from = to THEN Sha256Round(s, w, from)
  ELSE LET mid == (from + to) \div 2
           half == Sha256Rounds(s, w, from, mid)
       IN  IF Len(half) = 8 THEN Sha256Rounds(half, w, mid + 1, to) ELSE half

Sha256Padded(value) ==
  LET n == Len(value)
      total == (((n + 8) \div 64) + 1) * 64
  IN  [i \in 1..total |->
         IF i <= n THEN CharCode(CharAt(value, i))
         ELSE IF i = n + 1 THEN 128
         ELSE IF i <= total - 4 THEN 0
         ELSE ((8 * n) \div (256 ^ (total - i))) % 256]

RECURSIVE Sha256Blocks(_, _, _)
Sha256Blocks(h, bytes, b) ==
  IF 64 * (b - 1) >= Len(bytes) THEN h
  ELSE LET o == 64 * (b - 1)
           w0 == [j \in 1..16 |->
                    <<bytes[o + 4 * j - 3] * 256 + bytes[o + 4 * j - 2],
                      bytes[o + 4 * j - 1] * 256 + bytes[o + 4 * j]>>]
           s == Sha256Rounds(h, Sha256Schedule(w0), 1, 64)
       IN  Sha256Blocks(
             [i \in 1..8 |-> WSum(<<h[i], s[i], Zero32, Zero32, Zero32>>)],
             bytes, b + 1)

HexDigits == "0123456789abcdef"

Hex16(n) ==
  LET d(k) == CharAt(HexDigits, ((n \div (16 ^ k)) % 16) + 1)
  IN  d(3) \o d(2) \o d(1) \o d(0)

Sha256Compute(value) ==
  LET h == Sha256Blocks(Sha256H0, Sha256Padded(value), 1)
      x(i) == Hex16(h[i][1]) \o Hex16(h[i][2])
  IN  x(1) \o x(2) \o x(3) \o x(4) \o x(5) \o x(6) \o x(7) \o x(8)

\* crypto.createHash("sha256").update(value).digest("hex").  The digests of
\* the credentials in play are computed once, as the state is set up, and
\* read from sha; any other digest is computed on demand.
Sha256Hex(value) ==
  IF value \in DOMAIN sha THEN sha[value] ELSE Sha256Compute(value)

(***************************************************************************)
(* summarizeSources (lines 44-58).                                         *)
(***************************************************************************)
\* line 50: s?.trim() ? s.trim() : "unknown"
SourceKey(s) == IF Truthy(OptTrim(s)) THEN Trim(s[1]) ELSE "unknown"

\* lines 48-52: the Map of counts, as its entries <<key, n>> in insertion order
RECURSIVE CountSources(_, _)
CountSources(sources, counts) ==
  IF sources = <<>> THEN counts
  ELSE LET key == SourceKey(sources[1])
           hit == {i \in 1..Len(counts) : counts[i][1] = key}
           j == CHOOSE i \in hit : TRUE
       IN  CountSources(
             SubSeq(sources, 2, Len(sources)),
             IF hit = {} THEN Append(counts, <<key, 1>>)
             ELSE SubSeq(counts, 1, j - 1) \o <<<<key, counts[j][2] + 1>>>>
                  \o SubSeq(counts, j + 1, Len(counts)))

\* Mutation of InsertByCount: e goes before the entries of equal count, as an
\* unstable sort may place it.
InsertByCountBeforeTies(sorted, e) ==
  LET k == Cardinality({i \in 1..Len(sorted) : sorted[i][2] > e[2]})
  IN  SubSeq(sorted, 1, k) \o <<e>> \o SubSeq(sorted, k + 1, Len(sorted))

\* One step of the stable sort by (a, b) => b[1] - a[1]: e, which followed
\* every entry of sorted, goes behind the entries whose count is not smaller.
InsertByCount(sorted, e) ==
  LET k == Cardinality({i \in 1..Len(sorted) : sorted[i][2] >= e[2]})
  IN  SubSeq(sorted, 1, k) \o <<e>> \o SubSeq(sorted, k + 1, Len(sorted))

\* line 54: Array.prototype.sort is stable
RECURSIVE SortByCount(_)
SortByCount(entries) ==
  IF entries = <<>> THEN <<>>
  ELSE InsertByCount(SortByCount(SubSeq(entries, 1, Len(entries) - 1)),
                     entries[Len(entries)])

\* line 55: `${key}${n > 1 ? `×${n}` : ""}`
RenderSource(e) == e[1] \o (IF e[2] > 1 THEN Times \o ToString(e[2]) ELSE "")

RECURSIVE RenderSources(_)
RenderSources(entries) ==
  IF entries = <<>> THEN <<>>
  ELSE <<RenderSource(entries[1])>> \o RenderSources(SubSeq(entries, 2, Len(entries)))

summarizeSources(sources) ==
  LET parts == RenderSources(SortByCount(CountSources(sources, <<>>)))
  IN  [label |-> IF Len(parts) > 0 THEN Join(parts, "+") ELSE "unknown",
       parts |-> parts]

(***************************************************************************)
(* existsSyncMaybe (lines 60-68).  ext.existsSync[path] is what            *)
(* fs.existsSync(path) does: "exists", "missing" or "throws".              *)
(***************************************************************************)
existsSyncMaybe(p) ==
  LET path == TrimOrEmpty(p)
  IN  IF path = "" THEN Undefined
      ELSE IF ext.existsSync[path] = "throws" THEN Undefined
      ELSE Some(ext.existsSync[path] = "exists")

(***************************************************************************)
(* sha256HexPrefix and formatTokenHint (lines 70-86).                      *)
(***************************************************************************)
DefaultPrefixLen == 8

\* String.prototype.slice(start, end) for 0 <= start and 0 <= end
Slice(s, start, end) ==
  LET from == IF start > Len(s) THEN Len(s) ELSE start
      to == IF end > Len(s) THEN Len(s) ELSE end
  IN  IF from >= to THEN "" ELSE SubSeq(s, from + 1, to)

\* String.prototype.slice(-n): the last n characters, all of s when shorter
SliceLast(s, n) == IF n >= Len(s) THEN s ELSE SubSeq(s, Len(s) - n + 1, Len(s))

sha256HexPrefix(value, len) == Slice(Sha256Hex(value), 0, len)

\* Mutation of formatTokenHint: the full reveal stops below ten characters
\* (t.length < 10).
formatTokenHintBelowTen(token, o) ==
  LET t == Trim(token)
      head == Slice(t, 0, 4)
      tail == SliceLast(t, 4)
  IN  IF t = "" THEN "empty"
      ELSE IF ~o.showSecrets
        THEN "sha256:" \o sha256HexPrefix(t, DefaultPrefixLen) \o Dot \o "len "
             \o ToString(Len(t))
      ELSE IF Len(t) < 10 THEN t \o Dot \o "len " \o ToString(Len(t))
      ELSE head \o Ellipsis \o tail \o Dot \o "len " \o ToString(Len(t))

formatTokenHint(token, o) ==
  LET t == Trim(token)
      head == Slice(t, 0, 4)
      tail == SliceLast(t, 4)
  IN  IF t = "" THEN "empty"
      ELSE IF ~o.showSecrets
        THEN "sha256:" \o sha256HexPrefix(t, DefaultPrefixLen) \o Dot \o "len "
             \o ToString(Len(t))
      ELSE IF Len(t) <= 10 THEN t \o Dot \o "len " \o ToString(Len(t))
      ELSE head \o Ellipsis \o tail \o Dot \o "len " \o ToString(Len(t))

\* Mutation of showSecretsOf: opts?.showSecrets !== false, which reveals
\* when the option is left out.
showSecretsUnlessFalse(o) == o = Undefined \/ o[1].showSecrets # Some(FALSE)

\* line 99: opts?.showSecrets === true
showSecretsOf(o) == o # Undefined /\ o[1].showSecrets = Some(TRUE)

(***************************************************************************)
(* buildProvidersTable (lines 88-372).                                     *)
(*                                                                         *)
(* c is the configuration.  The account resolvers are external: c.<p>      *)
(* .accounts is the list listXAccountIds(cfg).map(resolveXAccount) yields, *)
(* each account with the fields this file reads.  A Telegram account also  *)
(* carries tokenFile, the raw cfg.telegram.accounts[accountId].tokenFile.  *)
(* The answers of the other collaborators are in ext: webAuthExists        *)
(* ("true", "false" or "rejects"), getWebAuthAgeMs and readWebSelfId (a    *)
(* returned value or a throw), formatAge and normalizeE164 (their          *)
(* results), existsSync and process.env.                                   *)
(***************************************************************************)
Returns(v) == [throws |-> FALSE, value |-> v]

Throws == [throws |-> TRUE, value |-> Undefined]

\* cfg.<p>?.enabled !== false
EnabledFlag(section) == section.enabled # Some(FALSE)

Row(provider, enabled, state, detail) ==
  [provider |-> provider, enabled |-> enabled, state |-> state, detail |-> detail]

\* a.token?.trim() and the like, as a condition
HasText(o) == Truthy(OptTrim(o))

EnabledAccounts(accounts) == SelectSeq(accounts, LAMBDA a : a.enabled)

\* ---- WhatsApp (lines 107-154)
waEnabled(c) == EnabledFlag(c.web)

\* line 109: waEnabled ? await webAuthExists().catch(() => false) : false
waLinked(c) == waEnabled(c) /\ ext.webAuthExists = "true"

\* lines 110-111: neither call is guarded; either may end the call
waProbeThrows(c) ==
  waLinked(c) /\ (ext.getWebAuthAgeMs.throws \/ ext.readWebSelfId.throws)

waAuthAgeMs(c) == IF waLinked(c) THEN ext.getWebAuthAgeMs.value ELSE Undefined

waSelf(c) == IF waLinked(c) THEN ext.readWebSelfId.value ELSE Undefined

waAccounts(c) == IF waLinked(c) THEN c.whatsapp.accounts ELSE <<>>

\* Mutation of waAccountCount: the length as it is, without "|| 1".
waAccountCountRaw(c) == Len(waAccounts(c))

\* line 123: waAccounts.length || 1
waAccountCount(c) == OrOne(Len(waAccounts(c)))

waDetail(c) ==
  IF waEnabled(c)
  THEN IF waLinked(c)
       THEN "linked"
            \o (IF Truthy(waSelf(c)) THEN " " \o waSelf(c)[1] ELSE "")
            \o (IF waAuthAgeMs(c) # Undefined /\ waAuthAgeMs(c)[1] # 0
                THEN Dot \o "auth " \o ext.formatAge ELSE "")
            \o Dot \o "accounts " \o ToString(waAccountCount(c))
       ELSE "not linked (run clawdbot login)"
  ELSE "disabled"

waState(c) == IF ~waEnabled(c) THEN "off" ELSE IF waLinked(c) THEN "ok" ELSE "setup"

waRow(c) == Row("WhatsApp", waEnabled(c), waState(c), waDetail(c))

\* Mutation of waRows: no default account when no account id is listed.
waRowsNoDefault(c) == waAccounts(c)

\* line 129
waRows(c) ==
  IF Len(waAccounts(c)) > 0 THEN waAccounts(c) ELSE <<c.whatsapp.defaultAccount>>

\* lines 134-137: the first three allow-listed senders that normalize to a
\* non-empty string
waAllowFrom(c, account) ==
  LET listed == IF account.allowFrom # Undefined THEN account.allowFrom[1]
                ELSE IF c.whatsapp.allowFrom # Undefined THEN c.whatsapp.allowFrom[1]
                ELSE <<>>
      mapped == [i \in 1..Len(listed) |-> ext.normalizeE164[listed[i]]]
      kept == SelectSeq(mapped, LAMBDA n : n # "")
  IN  SubSeq(kept, 1, IF Len(kept) > 3 THEN 3 ELSE Len(kept))

waDmPolicy(c, account) ==
  IF account.dmPolicy # Undefined THEN account.dmPolicy[1]
  ELSE IF c.whatsapp.dmPolicy # Undefined THEN c.whatsapp.dmPolicy[1]
  ELSE "pairing"

\* lines 133-152: one row of the "WhatsApp accounts" table
waAccountRow(c, account) ==
  LET allowFrom == waAllowFrom(c, account)
      notes == (IF ~account.enabled THEN <<"disabled">> ELSE <<>>)
               \o (IF account.selfChatMode THEN <<"self-chat">> ELSE <<>>)
               \o <<"dm:" \o waDmPolicy(c, account)>>
               \o (IF Len(allowFrom) > 0 THEN <<"allow:" \o Join(allowFrom, ",")>>
                   ELSE <<>>)
  IN  [Account |-> IF HasText(account.name)
                   THEN account.accountId \o " (" \o Trim(account.name[1]) \o ")"
                   ELSE account.accountId,
       Status |-> IF account.enabled THEN "OK" ELSE "OFF",
       Notes |-> Join(notes, Dot)]

RECURSIVE waAccountRows(_, _)
waAccountRows(c, accounts) ==
  IF accounts = <<>> THEN <<>>
  ELSE <<waAccountRow(c, accounts[1])>>
       \o waAccountRows(c, SubSeq(accounts, 2, Len(accounts)))

\* lines 127-154: the detail tables (only WhatsApp pushes one)
waDetails(c) ==
  IF waLinked(c)
  THEN <<[title |-> "WhatsApp accounts",
          columns |-> <<"Account", "Status", "Notes">>,
          rows |-> waAccountRows(c, waRows(c))]>>
  ELSE <<>>

\* ---- the bot-token providers, Telegram and Discord (lines 161-167, 210-216)
TokenAccounts(accounts) ==
  SelectSeq(EnabledAccounts(accounts), LAMBDA a : HasText(a.token))

RECURSIVE TokenSources(_)
TokenSources(accounts) ==
  IF accounts = <<>> THEN <<>>
  ELSE <<accounts[1].tokenSource>> \o TokenSources(SubSeq(accounts, 2, Len(accounts)))

\* lines 164-167: the hint of the first token account's token
TokenHint(accounts, o) ==
  LET sample == IF Len(TokenAccounts(accounts)) > 0
                THEN TrimOrEmpty(TokenAccounts(accounts)[1].token) ELSE ""
  IN  IF sample # "" THEN formatTokenHint(sample, [showSecrets |-> showSecretsOf(o)])
      ELSE ""

\* lines 200, 223: `bot token ${label}${hint ? ` (${hint})` : ""} · accounts ${n}/${d || 1}`
BotTokenDetail(accounts, o) ==
  "bot token " \o summarizeSources(TokenSources(TokenAccounts(accounts))).label
  \o (IF TokenHint(accounts, o) # "" THEN " (" \o TokenHint(accounts, o) \o ")" ELSE "")
  \o Dot \o "accounts " \o ToString(Len(TokenAccounts(accounts))) \o "/"
  \o ToString(OrOne(Len(EnabledAccounts(accounts))))

\* ---- Telegram (lines 156-203)
tgEnabled(c) == EnabledFlag(c.telegram)

\* lines 169-176
tgGlobalMissing(c) ==
  IF tgEnabled(c) /\ HasText(c.telegram.tokenFile)
     /\ existsSyncMaybe(c.telegram.tokenFile) = Some(FALSE)
  THEN <<"telegram.tokenFile">> ELSE <<>>

\* lines 177-184: every listed account id, whatever the account's enabled flag
RECURSIVE tgAccountsMissing(_, _)
tgAccountsMissing(c, accounts) ==
  IF accounts = <<>> THEN <<>>
  ELSE LET tokenFile == TrimOrEmpty(accounts[1].tokenFile)
           ok == existsSyncMaybe(Some(tokenFile))
       IN  (IF tgEnabled(c) /\ tokenFile # "" /\ ok = Some(FALSE)
            THEN <<"telegram.accounts." \o accounts[1].accountId \o ".tokenFile">>
            ELSE <<>>)
           \o tgAccountsMissing(c, SubSeq(accounts, 2, Len(accounts)))

tgMissingFiles(c) == tgGlobalMissing(c) \o tgAccountsMissing(c, c.telegram.accounts)

tgMisconfigured(c) == Len(tgMissingFiles(c)) > 0

tgState(c) ==
  IF ~tgEnabled(c) THEN "off"
  ELSE IF tgMisconfigured(c) THEN "warn"
  ELSE IF Len(TokenAccounts(c.telegram.accounts)) > 0 THEN "ok"
  ELSE "setup"

tgDetail(c, o) ==
  IF tgEnabled(c)
  THEN IF tgMisconfigured(c) THEN "token file missing (" \o tgMissingFiles(c)[1] \o ")"
       ELSE IF Len(TokenAccounts(c.telegram.accounts)) > 0
       THEN BotTokenDetail(c.telegram.accounts, o)
       ELSE "no bot token (TELEGRAM_BOT_TOKEN / telegram.botToken)"
  ELSE "disabled"

tgRow(c, o) == Row("Telegram", tgEnabled(c), tgState(c), tgDetail(c, o))

\* ---- Discord (lines 205-226)
dcEnabled(c) == EnabledFlag(c.discord)

dcState(c) ==
  IF ~dcEnabled(c) THEN "off"
  ELSE IF Len(TokenAccounts(c.discord.accounts)) > 0 THEN "ok"
  ELSE "setup"

dcDetail(c, o) ==
  IF dcEnabled(c)
  THEN IF Len(TokenAccounts(c.discord.accounts)) > 0
       THEN BotTokenDetail(c.discord.accounts, o)
       ELSE "no bot token (DISCORD_BOT_TOKEN / discord.token)"
  ELSE "disabled"

dcRow(c, o) == Row("Discord", dcEnabled(c), dcState(c), dcDetail(c, o))

\* ---- Slack (lines 228-279)
slEnabled(c) == EnabledFlag(c.slack)

\* lines 234-236
slReady(c) ==
  SelectSeq(EnabledAccounts(c.slack.accounts),
            LAMBDA a : HasText(a.botToken) /\ HasText(a.appToken))

\* Mutation of slPartial: the filter runs over slAccounts, disabled ones too.
slPartialAnyAccount(c) ==
  SelectSeq(c.slack.accounts,
            LAMBDA a : \/ (HasText(a.botToken) /\ ~HasText(a.appToken))
                       \/ (~HasText(a.botToken) /\ HasText(a.appToken)))

\* lines 237-241
slPartial(c) ==
  SelectSeq(EnabledAccounts(c.slack.accounts),
            LAMBDA a : \/ (HasText(a.botToken) /\ ~HasText(a.appToken))
                       \/ (~HasText(a.botToken) /\ HasText(a.appToken)))

\* lines 242-244
slHasAnyToken(c) ==
  \E i \in 1..Len(EnabledAccounts(c.slack.accounts)) :
    \/ HasText(EnabledAccounts(c.slack.accounts)[i].botToken)
    \/ HasText(EnabledAccounts(c.slack.accounts)[i].appToken)

\* a.botTokenSource ?? "none"
SourceOrNone(source) == IF source = Undefined THEN Some("none") ELSE source

RECURSIVE slSources(_, _)
slSources(accounts, field) ==
  IF accounts = <<>> THEN <<>>
  ELSE <<SourceOrNone(accounts[1][field])>>
       \o slSources(SubSeq(accounts, 2, Len(accounts)), field)

\* lines 251-259: the hint of the first ready account's bot or app token
slHint(c, o, tokenField, sourceField) ==
  IF Len(slReady(c)) > 0 /\ HasText(slReady(c)[1][tokenField])
     /\ slReady(c)[1][sourceField] # Some("none")
  THEN formatTokenHint(slReady(c)[1][tokenField][1], [showSecrets |-> showSecretsOf(o)])
  ELSE ""

\* Mutation of slState: the !slEnabled branch is gone.
slStateIgnoringFlag(c) ==
  IF Len(slPartial(c)) > 0 THEN "warn"
  ELSE IF Len(slReady(c)) > 0 THEN "ok"
  ELSE "setup"

slState(c) ==
  IF ~slEnabled(c) THEN "off"
  ELSE IF Len(slPartial(c)) > 0 THEN "warn"
  ELSE IF Len(slReady(c)) > 0 THEN "ok"
  ELSE "setup"

slDetail(c, o) ==
  LET slBotHint == slHint(c, o, "botToken", "botTokenSource")
      slAppHint == slHint(c, o, "appToken", "appTokenSource")
  IN  IF slEnabled(c)
      THEN IF Len(slPartial(c)) > 0
           THEN "partial tokens (need bot+app)" \o Dot \o "accounts "
                \o ToString(Len(slPartial(c)))
           ELSE IF Len(slReady(c)) > 0
           THEN "tokens ok (bot "
                \o summarizeSources(slSources(slReady(c), "botTokenSource")).label
                \o (IF slBotHint # "" THEN " " \o slBotHint ELSE "")
                \o ", app "
                \o summarizeSources(slSources(slReady(c), "appTokenSource")).label
                \o (IF slAppHint # "" THEN " " \o slAppHint ELSE "")
                \o ")" \o Dot \o "accounts " \o ToString(Len(slReady(c))) \o "/"
                \o ToString(OrOne(Len(EnabledAccounts(c.slack.accounts))))
           ELSE IF slHasAnyToken(c) THEN "tokens incomplete (need bot+app)"
           ELSE "no tokens (SLACK_BOT_TOKEN + SLACK_APP_TOKEN)"
      ELSE "disabled"

slRow(c, o) == Row("Slack", slEnabled(c), slState(c), slDetail(c, o))

\* ---- Signal and iMessage (lines 281-328)
ConfiguredAccounts(accounts) ==
  SelectSeq(EnabledAccounts(accounts), LAMBDA a : a.configured)

siEnabled(c) == EnabledFlag(c.signal)

\* lines 288-289: siConfiguredAccounts[0] ?? siEnabledAccounts[0] ?? null
siBaseUrl(c) ==
  IF Len(ConfiguredAccounts(c.signal.accounts)) > 0
  THEN TrimOrEmpty(ConfiguredAccounts(c.signal.accounts)[1].baseUrl)
  ELSE IF Len(EnabledAccounts(c.signal.accounts)) > 0
  THEN TrimOrEmpty(EnabledAccounts(c.signal.accounts)[1].baseUrl)
  ELSE ""

siState(c) ==
  IF ~siEnabled(c) THEN "off"
  ELSE IF Len(ConfiguredAccounts(c.signal.accounts)) > 0 THEN "ok"
  ELSE "setup"

siDetail(c) ==
  IF siEnabled(c)
  THEN IF Len(ConfiguredAccounts(c.signal.accounts)) > 0
       THEN "configured"
            \o (IF siBaseUrl(c) # "" THEN Dot \o "baseUrl " \o siBaseUrl(c) ELSE "")
            \o Dot \o "accounts "
            \o ToString(Len(ConfiguredAccounts(c.signal.accounts))) \o "/"
            \o ToString(OrOne(Len(EnabledAccounts(c.signal.accounts))))
       ELSE "default config (no overrides)"
  ELSE "disabled"

siRow(c) == Row("Signal", siEnabled(c), siState(c), siDetail(c))

imEnabled(c) == EnabledFlag(c.imessage)

\* lines 312-314: the first enabled account's config.cliPath / config.dbPath
imPath(c, field) ==
  IF Len(EnabledAccounts(c.imessage.accounts)) > 0
  THEN TrimOrEmpty(EnabledAccounts(c.imessage.accounts)[1].config[field])
  ELSE ""

imState(c) ==
  IF ~imEnabled(c) THEN "off"
  ELSE IF Len(ConfiguredAccounts(c.imessage.accounts)) > 0 THEN "ok"
  ELSE "setup"

imDetail(c) ==
  IF imEnabled(c)
  THEN IF Len(ConfiguredAccounts(c.imessage.accounts)) > 0
       THEN "configured"
            \o (IF imPath(c, "cliPath") # "" THEN Dot \o "cliPath " \o imPath(c, "cliPath")
                ELSE "")
            \o (IF imPath(c, "dbPath") # "" THEN Dot \o "dbPath " \o imPath(c, "dbPath")
                ELSE "")
            \o Dot \o "accounts "
            \o ToString(Len(ConfiguredAccounts(c.imessage.accounts))) \o "/"
            \o ToString(OrOne(Len(EnabledAccounts(c.imessage.accounts))))
       ELSE "default config (no overrides)"
  ELSE "disabled"

imRow(c) == Row("iMessage", imEnabled(c), imState(c), imDetail(c))

\* ---- MS Teams (lines 330-366)
msEnabled(c) == EnabledFlag(c.msteams)

\* lines 333-339: cfg.msteams?.<key>?.trim() || process.env.<NAME>?.trim()
msValue(c, key, envName) ==
  IF HasText(c.msteams[key]) THEN OptTrim(c.msteams[key]) ELSE OptTrim(ext.env[envName])

msAppId(c) == msValue(c, "appId", "MSTEAMS_APP_ID")

msAppPassword(c) == msValue(c, "appPassword", "MSTEAMS_APP_PASSWORD")

msTenantId(c) == msValue(c, "tenantId", "MSTEAMS_TENANT_ID")

\* resolveMSTeamsCredentials (../../msteams/token.js): the credentials when
\* app id, app password and tenant id are all there, in the configuration or
\* else in the environment; undefined otherwise.  Here: whether it returns any.
resolveMSTeamsCredentials(c) ==
  /\ Truthy(msValue(c, "appId", "MSTEAMS_APP_ID"))
  /\ Truthy(msValue(c, "appPassword", "MSTEAMS_APP_PASSWORD"))
  /\ Truthy(msValue(c, "tenantId", "MSTEAMS_TENANT_ID"))

\* Mutation of msMissing: only the configuration is consulted, not the
\* environment.
msMissingConfigOnly(c) ==
  (IF ~HasText(c.msteams.appId) THEN <<"appId">> ELSE <<>>)
  \o (IF ~HasText(c.msteams.appPassword) THEN <<"appPassword">> ELSE <<>>)
  \o (IF ~HasText(c.msteams.tenantId) THEN <<"tenantId">> ELSE <<>>)

\* lines 340-344
msMissing(c) ==
  (IF ~Truthy(msAppId(c)) THEN <<"appId">> ELSE <<>>)
  \o (IF ~Truthy(msAppPassword(c)) THEN <<"appPassword">> ELSE <<>>)
  \o (IF ~Truthy(msTenantId(c)) THEN <<"tenantId">> ELSE <<>>)

\* line 345
msAnyPresent(c) == Truthy(msAppId(c)) \/ Truthy(msAppPassword(c)) \/ Truthy(msTenantId(c))

\* lines 346-348
msPasswordHint(c, o) ==
  IF Truthy(msAppPassword(c))
  THEN formatTokenHint(msAppPassword(c)[1], [showSecrets |-> showSecretsOf(o)])
  ELSE ""

msState(c) ==
  IF ~msEnabled(c) THEN "off"
  ELSE IF resolveMSTeamsCredentials(c) THEN "ok"
  ELSE IF msAnyPresent(c) THEN "warn"
  ELSE "setup"

msDetail(c, o) ==
  IF msEnabled(c)
  THEN IF resolveMSTeamsCredentials(c)
       THEN "credentials set"
            \o (IF msPasswordHint(c, o) # ""
                THEN " (password " \o msPasswordHint(c, o) \o ")" ELSE "")
       ELSE IF msAnyPresent(c)
       THEN "credentials incomplete (missing " \o Join(msMissing(c), ", ") \o ")"
       ELSE "no credentials (MSTEAMS_APP_ID / _PASSWORD / _TENANT_ID)"
  ELSE "disabled"

msRow(c, o) == Row("MS Teams", msEnabled(c), msState(c), msDetail(c, o))

\* ---- the report (lines 100-105, 368-371)
\* Whether the call ends in an exception instead of a report
buildProvidersTableThrows(c) == waProbeThrows(c)

buildProvidersTable(c, o) ==
  [rows |-> <<waRow(c), tgRow(c, o), dcRow(c, o), slRow(c, o), siRow(c), imRow(c),
              msRow(c, o)>>,
   details |-> waDetails(c)]

(***************************************************************************)
(* Inputs of the helper functions.                                         *)
(***************************************************************************)
\* The option objects a caller may pass: none, {}, { showSecrets: true },
\* { showSecrets: false }
OptsSet ==
  {Undefined, Some([showSecrets |-> Undefined]),
   Some([showSecrets |-> Some(TRUE)]), Some([showSecrets |-> Some(FALSE)])}

\* Credentials: the pieces of TokenSample of at most MaxTokenLen characters
\* (blank ones, padded ones, one that reads like the masked hint's own text,
\* and lengths on both sides of the reveal boundary)
TokenSample == " sha256 abcdefghijkl "

HintTokens ==
  {SubSeq(TokenSample, i, i + n - 1) :
     <<i, n>> \in {p \in (1..Len(TokenSample)) \X (0..MaxTokenLen) :
                     p[1] + p[2] - 1 <= Len(TokenSample)}}

SourceTags == {Undefined, Some(""), Some("env"), Some(" env "), Some("file"), Some("config")}

RECURSIVE SeqsUpTo(_, _)
SeqsUpTo(S, n) ==
  IF n = 0 THEN {<<>>}
  ELSE LET shorter == SeqsUpTo(S, n - 1)
       IN  shorter \cup {Append(s, x) : <<s, x>> \in {q \in shorter \X S : Len(q[1]) = n - 1}}

NoCfg == <<>>

NoExt == [existsSync |-> <<>>]

NoArgs == <<>>

NoRet == <<>>

(***************************************************************************)
(* Inputs of buildProvidersTable.  Each family below varies one provider's *)
(* section (and the answers of the collaborators it consults) over its     *)
(* cases and leaves the other sections at BaseCfg; Flags varies the        *)
(* enabled flag of all seven at once.                                      *)
(***************************************************************************)
OptBoolSet == {Undefined, Some(TRUE), Some(FALSE)}

\* The sequences of at most n accounts out of S, no account id twice (the
\* ids are the keys of cfg.<p>.accounts)
RECURSIVE AccountLists(_, _)
AccountLists(S, n) ==
  IF n = 0 THEN {<<>>}
  ELSE LET shorter == AccountLists(S, n - 1)
       IN  shorter \cup
           {Append(q[1], q[2]) :
              q \in {r \in shorter \X S :
                       /\ Len(r[1]) = n - 1
                       /\ \A i \in 1..Len(r[1]) : r[1][i].accountId # r[2].accountId}}

WaDefault ==
  [accountId |-> "default", name |-> Undefined, enabled |-> TRUE,
   selfChatMode |-> FALSE, dmPolicy |-> Undefined, allowFrom |-> Undefined]

WaWork ==
  [accountId |-> "work", name |-> Some(" Work "), enabled |-> FALSE,
   selfChatMode |-> TRUE, dmPolicy |-> Some("open"),
   allowFrom |-> Some(<<"15550001111", "junk", "15550002222", "15550003333",
                        "15550004444">>)]

TgAccountSamples ==
  {[accountId |-> "main", enabled |-> TRUE, token |-> Some("123456:AAF-main"),
    tokenSource |-> Some("env"), tokenFile |-> Undefined],
   [accountId |-> "ops", enabled |-> TRUE, token |-> Some("  "),
    tokenSource |-> Some("none"), tokenFile |-> Some(" /run/tg-ops.token ")],
   [accountId |-> "old", enabled |-> FALSE, token |-> Some("654321:AAF-old"),
    tokenSource |-> Some("config"), tokenFile |-> Some("/run/tg-old.token")],
   [accountId |-> "new", enabled |-> TRUE, token |-> Undefined,
    tokenSource |-> Undefined, tokenFile |-> Some("  ")]}

TgPaths == {"/run/tg.token", "/run/tg-ops.token", "/run/tg-old.token"}

DcAccountSamples ==
  {[accountId |-> "main", enabled |-> TRUE, token |-> Some(" discord-token-main "),
    tokenSource |-> Some("env")],
   [accountId |-> "alt", enabled |-> TRUE, token |-> Some("discord-token-alt"),
    tokenSource |-> Some("env")],
   [accountId |-> "cfg", enabled |-> TRUE, token |-> Some("discord-token-cfg"),
    tokenSource |-> Some(" config ")],
   [accountId |-> "blank", enabled |-> TRUE, token |-> Some(""),
    tokenSource |-> Some("none")],
   [accountId |-> "off", enabled |-> FALSE, token |-> Some("discord-token-off"),
    tokenSource |-> Undefined]}

SlTokenSet == {Undefined, Some("  ")}

SlBotTokens == SlTokenSet \cup {Some("xoxb-slack-bot")}

SlAppTokens == SlTokenSet \cup {Some(" xapp-slack-app ")}

\* Every combination of bot and app token on an enabled account "default"
\* and on a disabled one "parked", the combinations without blanks on "team",
\* and one account whose tokens have no source
SlAccountSamples ==
  {[accountId |-> IF e THEN "default" ELSE "parked", enabled |-> e,
    botToken |-> b, appToken |-> a,
    botTokenSource |-> IF HasText(b) THEN Some("env") ELSE Some("none"),
    appTokenSource |-> IF HasText(a) THEN Some("config") ELSE Undefined] :
     <<e, b, a>> \in BOOLEAN \X SlBotTokens \X SlAppTokens}
  \cup
  {[accountId |-> "team", enabled |-> TRUE, botToken |-> b, appToken |-> a,
    botTokenSource |-> IF HasText(b) THEN Some("env") ELSE Some("none"),
    appTokenSource |-> IF HasText(a) THEN Some("env") ELSE Undefined] :
     <<b, a>> \in {Undefined, Some("xoxb-slack-bot")} \X {Undefined, Some(" xapp-slack-app ")}}
  \cup
  {[accountId |-> "legacy", enabled |-> TRUE, botToken |-> Some("xoxb-slack-bot"),
    appToken |-> Some(" xapp-slack-app "), botTokenSource |-> Some("none"),
    appTokenSource |-> Undefined]}

SiAccountSamples ==
  {[accountId |-> id, enabled |-> e, configured |-> k, baseUrl |-> u] :
     <<id, e, k, u>> \in {"default"} \X BOOLEAN \X BOOLEAN
                         \X {Undefined, Some(" http://127.0.0.1:8080 ")}}
  \cup
  {[accountId |-> "second", enabled |-> TRUE, configured |-> k, baseUrl |-> Undefined] :
     k \in BOOLEAN}

ImAccountSamples ==
  {[accountId |-> id, enabled |-> e, configured |-> k,
    config |-> [cliPath |-> p, dbPath |-> IF k THEN Some(" /db/chat.db ") ELSE Undefined]] :
     <<id, e, k, p>> \in {"default"} \X BOOLEAN \X BOOLEAN
                         \X {Undefined, Some("/usr/local/bin/imsg")}}
  \cup
  {[accountId |-> "second", enabled |-> TRUE, configured |-> k,
    config |-> [cliPath |-> Undefined, dbPath |-> Undefined]] : k \in BOOLEAN}

MsValues == {Undefined, Some("  "), Some(" teams-value ")}

MsEnvValues == {Undefined, Some("teams-env-value")}

BaseCfg ==
  [web |-> [enabled |-> Undefined],
   whatsapp |-> [allowFrom |-> Undefined, dmPolicy |-> Undefined,
                 accounts |-> <<WaDefault>>, defaultAccount |-> WaDefault],
   telegram |-> [enabled |-> Undefined, tokenFile |-> Undefined,
                 accounts |-> <<CHOOSE a \in TgAccountSamples : a.accountId = "main",
                                CHOOSE a \in TgAccountSamples : a.accountId = "ops">>],
   discord |-> [enabled |-> Undefined,
                accounts |-> <<CHOOSE a \in DcAccountSamples : a.accountId = "main">>],
   slack |-> [enabled |-> Undefined,
              accounts |-> <<CHOOSE a \in SlAccountSamples :
                               /\ a.accountId = "default"
                               /\ HasText(a.botToken) /\ HasText(a.appToken)>>],
   signal |-> [enabled |-> Undefined,
               accounts |-> <<CHOOSE a \in SiAccountSamples :
                                /\ a.accountId = "default" /\ a.enabled
                                /\ a.configured /\ a.baseUrl # Undefined>>],
   imessage |-> [enabled |-> Undefined,
                 accounts |-> <<CHOOSE a \in ImAccountSamples :
                                  /\ a.accountId = "default" /\ a.enabled
                                  /\ a.configured /\ a.config.cliPath # Undefined>>],
   msteams |-> [enabled |-> Undefined, appId |-> Some(" teams-value "),
                appPassword |-> Some(" teams-value "), tenantId |-> Undefined]]

BaseExt ==
  [webAuthExists |-> "true",
   getWebAuthAgeMs |-> Returns(Some(300000)),
   readWebSelfId |-> Returns(Some("+15550009999")),
   formatAge |-> "5m",
   normalizeE164 |->
     [n \in {"15550001111", "15550002222", "15550003333", "15550004444",
             "15550005555", "junk"} |-> IF n = "junk" THEN "" ELSE "+" \o n],
   existsSync |-> [p \in TgPaths |-> "exists"],
   env |-> [MSTEAMS_APP_ID |-> Undefined, MSTEAMS_APP_PASSWORD |-> Undefined,
            MSTEAMS_TENANT_ID |-> Some("teams-env-value")]]

Flags ==
  {<<[BaseCfg EXCEPT !.web.enabled = f[1], !.telegram.enabled = f[2],
                     !.discord.enabled = f[3], !.slack.enabled = f[4],
                     !.signal.enabled = f[5], !.imessage.enabled = f[6],
                     !.msteams.enabled = f[7]], BaseExt>> :
     f \in [1..7 -> OptBoolSet]}

WhatsAppCases ==
  {<<[BaseCfg EXCEPT !.web.enabled = e, !.whatsapp.accounts = l,
                     !.whatsapp.allowFrom = d[1], !.whatsapp.dmPolicy = d[2]],
     [BaseExt EXCEPT !.webAuthExists = x, !.getWebAuthAgeMs = g, !.readWebSelfId = s]>> :
     <<e, l, d, x, g, s>> \in
       {Undefined, Some(FALSE)}
       \X AccountLists({WaDefault, WaWork}, MaxAccounts)
       \X {<<Undefined, Undefined>>, <<Some(<<"15550005555">>), Some("allowlist")>>}
       \X {"true", "false", "rejects"}
       \X {Returns(Undefined), Returns(Some(0)), Returns(Some(300000)), Throws}
       \X {Returns(Undefined), Returns(Some("+15550009999")), Throws}}

TelegramCases ==
  {<<[BaseCfg EXCEPT !.telegram = [enabled |-> e, tokenFile |-> t, accounts |-> l]],
     [BaseExt EXCEPT !.existsSync = x]>> :
     <<e, t, l, x>> \in
       {Undefined, Some(FALSE)}
       \X {Undefined, Some("  "), Some("/run/tg.token")}
       \X AccountLists(TgAccountSamples, MaxAccounts)
       \X [TgPaths -> {"exists", "missing", "throws"}]}

DiscordCases ==
  {<<[BaseCfg EXCEPT !.discord = [enabled |-> e, accounts |-> l]], BaseExt>> :
     <<e, l>> \in {Undefined, Some(FALSE)} \X AccountLists(DcAccountSamples, MaxAccounts)}

SlackCases ==
  {<<[BaseCfg EXCEPT !.slack = [enabled |-> e, accounts |-> l]], BaseExt>> :
     <<e, l>> \in {Undefined, Some(FALSE)} \X AccountLists(SlAccountSamples, MaxAccounts)}

SignalCases ==
  {<<[BaseCfg EXCEPT !.signal = [enabled |-> e, accounts |-> l]], BaseExt>> :
     <<e, l>> \in {Undefined, Some(FALSE)} \X AccountLists(SiAccountSamples, MaxAccounts)}

IMessageCases ==
  {<<[BaseCfg EXCEPT !.imessage = [enabled |-> e, accounts |-> l]], BaseExt>> :
     <<e, l>> \in {Undefined, Some(FALSE)} \X AccountLists(ImAccountSamples, MaxAccounts)}

MSTeamsCases ==
  {<<[BaseCfg EXCEPT !.msteams = [enabled |-> e, appId |-> v[1], appPassword |-> v[2],
                                  tenantId |-> v[3]]],
     [BaseExt EXCEPT !.env = [MSTEAMS_APP_ID |-> n[1], MSTEAMS_APP_PASSWORD |-> n[2],
                              MSTEAMS_TENANT_ID |-> n[3]]]>> :
     <<e, v, n>> \in {Undefined, Some(FALSE)} \X [1..3 -> MsValues] \X [1..3 -> MsEnvValues]}

(***************************************************************************)
(* The calls.                                                              *)
(***************************************************************************)
\* A call of buildProvidersTable on an input of the family
Calls(family) ==
  /\ pc = "call"
  /\ fn = "buildProvidersTable"
  /\ \E input \in family : cfg = input[1] /\ ext = input[2]
  /\ opts \in OptsSet
  /\ args = NoArgs
  /\ ret = NoRet

\* The credentials the configurations of the report carry
ReportSecrets ==
  {"123456:AAF-main", "discord-token-main", "discord-token-alt", "discord-token-cfg",
   "xoxb-slack-bot", "xapp-slack-app", "teams-value", "teams-env-value"}

Init ==
  /\ sha = [t \in ReportSecrets |-> Sha256Compute(t)]
  /\ \/ Calls(Flags)
     \/ Calls(WhatsAppCases)
     \/ Calls(TelegramCases)
     \/ Calls(DiscordCases)
     \/ Calls(SlackCases)
     \/ Calls(SignalCases)
     \/ Calls(IMessageCases)
     \/ Calls(MSTeamsCases)

\* The whole call of buildProvidersTable(cfg, opts): a report, or the
\* exception of an unguarded probe
BuildProvidersTable ==
  /\ pc = "call"
  /\ fn = "buildProvidersTable"
  /\ IF buildProvidersTableThrows(cfg)
     THEN pc' = "threw" /\ ret' = NoRet
     ELSE pc' = "returned" /\ ret' = buildProvidersTable(cfg, opts)
  /\ UNCHANGED <<fn, cfg, opts, ext, args, sha>>

Next == BuildProvidersTable

Spec == Init /\ [][Next]_vars

InitHint ==
  /\ sha = [t \in {Trim(x) : x \in HintTokens} |-> Sha256Compute(t)]
  /\ pc = "call"
  /\ fn = "formatTokenHint"
  /\ cfg = NoCfg
  /\ ext = NoExt
  /\ opts \in OptsSet
  /\ args \in [token : HintTokens]
  /\ ret = NoRet

\* formatTokenHint(token, { showSecrets }), as buildProvidersTable calls it
\* (lines 166, 215, 254, 258, 347) with the showSecrets of line 99
FormatTokenHint ==
  /\ pc = "call"
  /\ fn = "formatTokenHint"
  /\ pc' = "returned"
  /\ ret' = formatTokenHint(args.token, [showSecrets |-> showSecretsOf(opts)])
  /\ UNCHANGED <<fn, cfg, opts, ext, args, sha>>

NextHint == FormatTokenHint

SpecHint == InitHint /\ [][NextHint]_vars

InitSources ==
  /\ sha = <<>>
  /\ pc = "call"
  /\ fn = "summarizeSources"
  /\ cfg = NoCfg
  /\ ext = NoExt
  /\ opts = Undefined
  /\ args \in [sources : SeqsUpTo(SourceTags, MaxSources)]
  /\ ret = NoRet

SummarizeSources ==
  /\ pc = "call"
  /\ fn = "summarizeSources"
  /\ pc' = "returned"
  /\ ret' = summarizeSources(args.sources)
  /\ UNCHANGED <<fn, cfg, opts, ext, args, sha>>

NextSources == SummarizeSources

SpecSources == InitSources /\ [][NextSources]_vars


(***************************************************************************)
(* Properties.  They are stated on the inputs and the result of a call,    *)
(* with text predicates of their own, not through the operators above.     *)
(***************************************************************************)
StartsWith(s, p) == Len(s) >= Len(p) /\ SubSeq(s, 1, Len(p)) = p

EndsWith(s, p) == Len(s) >= Len(p) /\ SubSeq(s, Len(s) - Len(p) + 1, Len(s)) = p

Occurs(u, s) == \E i \in 1..(Len(s) - Len(u) + 1) : SubSeq(s, i, i + Len(u) - 1) = u

\* Some character of the string is not white space
NonBlank(s) == \E i \in 1..Len(s) : CharAt(s, i) \notin WhiteSpace

\* An optional string is there and not blank
Present(o) == o # Undefined /\ NonBlank(o[1])

\* The string without its leading and trailing white space
Core(s) ==
  IF ~NonBlank(s) THEN ""
  ELSE LET inked == {i \in 1..Len(s) : CharAt(s, i) \notin WhiteSpace}
           lo == CHOOSE i \in inked : \A j \in inked : i <= j
           hi == CHOOSE i \in inked : \A j \in inked : j <= i
       IN  SubSeq(s, lo, hi)

AtLeastOne(n) == IF n < 1 THEN 1 ELSE n

SourcesReturned == fn = "summarizeSources" /\ pc = "returned"

\* The tag the i-th source counts under
TagAt(i) ==
  IF Present(args.sources[i]) THEN Core(args.sources[i][1]) ELSE "unknown"

Tags == {TagAt(i) : i \in 1..Len(args.sources)}

TagCount(k) == Cardinality({i \in 1..Len(args.sources) : TagAt(i) = k})

TagFirst(k) == CHOOSE i \in 1..Len(args.sources) :
                 TagAt(i) = k /\ \A j \in 1..(i - 1) : TagAt(j) # k

\* Tag a comes before tag b: more occurrences, or as many and seen earlier
TagBefore(a, b) ==
  \/ TagCount(a) > TagCount(b)
  \/ TagCount(a) = TagCount(b) /\ TagFirst(a) < TagFirst(b)

TagRank(k) == 1 + Cardinality({a \in Tags : TagBefore(a, k)})

TagRendered(k) ==
  IF TagCount(k) = 1 THEN k ELSE k \o "×" \o ToString(TagCount(k))

\* C7 (as amended): summarizeSources trims each tag and counts a missing or
\* blank one as "unknown"; the distinct tags are ordered by count descending,
\* ties in first-seen order; a tag seen once renders as itself and one seen
\* n > 1 times as "tag×n"; parts holds these rendered strings in that order
\* and label joins them with "+", or is "unknown" when there is no source.
\* ["env", "env", "file"] gives label "env×2+file" and parts
\* ["env×2", "file"].
C7_SummarizeSources ==
  SourcesReturned =>
    /\ Len(ret.parts) = Cardinality(Tags)
    /\ \A k \in Tags : ret.parts[TagRank(k)] = TagRendered(k)
    /\ ret.label = (IF args.sources = <<>> THEN "unknown" ELSE Join(ret.parts, "+"))
    /\ args.sources = <<Some("env"), Some("env"), Some("file")>> =>
         ret = [label |-> "env×2+file", parts |-> <<"env×2", "file">>]

\* C7 reached: a tag seen later but more often comes first, through a tag
\* that needs trimming
C7_Witness ==
  /\ SourcesReturned
  /\ args.sources = <<Some("file"), Some(" env "), Some("env")>>
  /\ ret.label = "env×2+file"

\* C7 as stated: parts holds the distinct tags themselves in that order
\* (["env", "file"] for ["env", "env", "file"])
C7_PartsAreTags ==
  SourcesReturned =>
    /\ Len(ret.parts) = Cardinality(Tags)
    /\ \A k \in Tags : ret.parts[TagRank(k)] = k

HintReturned == fn = "formatTokenHint" /\ pc = "returned"

\* The caller asked for secrets: opts.showSecrets is exactly true
Revealing == opts = Some([showSecrets |-> Some(TRUE)])

\* The characters the masked form itself is written in: its fixed text, the
\* hexadecimal digits and the decimal digits
MaskAlphabet ==
  {"s", "h", "a", ":", " ", "·", "l", "e", "n", "b", "c", "d", "f",
   "0", "1", "2", "3", "4", "5", "6", "7", "8", "9"}

\* The pieces of four characters of a string
Pieces(s) == {SubSeq(s, i, i + 3) : i \in 1..(Len(s) - 3)}

\* The masked form of a trimmed credential
Masked(t) ==
  "sha256:" \o SubSeq(sha[t], 1, 8) \o " · len " \o ToString(Len(t))

\* C6 (as amended): without showSecrets = true (omitted, options omitted, or
\* false) the hint of a non-blank credential x is "sha256:", the first 8
\* hexadecimal digits of the SHA-256 of the trimmed x, " · len " and the
\* length of the trimmed x; a piece of four characters of x occurs in the
\* hint only if it is written in the masked form's own alphabet.
C6_MaskedHint ==
  HintReturned /\ ~Revealing /\ NonBlank(args.token) =>
    /\ Len(sha[Core(args.token)]) = 64
    /\ ret = Masked(Core(args.token))
    /\ \A u \in Pieces(args.token) :
         Occurs(u, ret) => \A i \in 1..4 : CharAt(u, i) \in MaskAlphabet

\* C6 reached: the options are omitted and a padded credential is masked
C6_Witness ==
  /\ HintReturned
  /\ opts = Undefined
  /\ args.token = " sha256 abcd"
  /\ StartsWith(ret, "sha256:")
  /\ EndsWith(ret, " · len 11")

\* C6 as stated: the masked hint contains no piece of four or more
\* characters of x
C6_NoPieceOfSecret ==
  HintReturned /\ ~Revealing /\ NonBlank(args.token) =>
    /\ ret = Masked(Core(args.token))
    /\ \A u \in Pieces(Core(args.token)) : ~Occurs(u, ret)

\* C8 (as amended): with showSecrets = true the hint is "empty" for an empty
\* or blank input; otherwise, with t the trimmed input, t in full and
\* " · len <length of t>" when t has at most 10 characters, and the first 4
\* and last 4 characters of t around the ellipsis and " · len <length of t>"
\* when t has more than 10, so that at least 3 characters stay hidden.
C8_RevealedHint ==
  HintReturned /\ Revealing =>
    LET t == Core(args.token)
        n == Len(t)
    IN  /\ ~NonBlank(args.token) => ret = "empty"
        /\ NonBlank(args.token) /\ n <= 10 => ret = t \o " · len " \o ToString(n)
        /\ n > 10 =>
             /\ ret = SubSeq(t, 1, 4) \o Ellipsis \o SubSeq(t, n - 3, n)
                      \o " · len " \o ToString(n)
             /\ n - 8 >= 3
             /\ ~Occurs(SubSeq(t, 5, n - 4), ret)

\* C8 reached: both sides of the boundary, on padded inputs
C8_Witness ==
  /\ HintReturned
  /\ Revealing
  /\ \/ args.token = " abcdefghij" /\ ret = "abcdefghij · len 10"
     \/ args.token = " abcdefghijk" /\ ret = "abcd" \o Ellipsis \o "hijk · len 11"

\* C8 as stated: the boundary and the length are those of the input string
C8_LengthOfInput ==
  HintReturned /\ Revealing =>
    LET x == args.token
        n == Len(x)
    IN  /\ ~NonBlank(x) => ret = "empty"
        /\ NonBlank(x) /\ n <= 10 => ret = x \o " · len " \o ToString(n)
        /\ NonBlank(x) /\ n > 10 =>
             ret = SubSeq(x, 1, 4) \o Ellipsis \o SubSeq(x, n - 3, n)
                   \o " · len " \o ToString(n)

ReportReturned == fn = "buildProvidersTable" /\ pc = "returned"

\* The section of the configuration that switches the i-th row
Sections == <<"web", "telegram", "discord", "slack", "signal", "imessage", "msteams">>

Providers ==
  <<"WhatsApp", "Telegram", "Discord", "Slack", "Signal", "iMessage", "MS Teams">>

\* The indices of the enabled accounts of a list
EnabledIn(accounts) == {i \in 1..Len(accounts) : accounts[i].enabled}

\* C1: in every report, a row has state "off" exactly when its enabled field
\* is false, and the row of a provider whose section says enabled: false has
\* state "off" and detail "disabled", whatever else the configuration, the
\* session and the environment hold.
C1_OffIffDisabled ==
  ReportReturned =>
    /\ Len(ret.rows) = 7
    /\ \A i \in 1..7 :
         /\ ret.rows[i].state = "off" <=> ret.rows[i].enabled = FALSE
         /\ cfg[Sections[i]].enabled = Some(FALSE) =>
              /\ ret.rows[i].enabled = FALSE
              /\ ret.rows[i].state = "off"
              /\ ret.rows[i].detail = "disabled"

\* C1 reached: Slack is switched off over an account with one token only,
\* next to a provider that is on
C1_Witness ==
  /\ ReportReturned
  /\ cfg.slack.enabled = Some(FALSE)
  /\ \E i \in EnabledIn(cfg.slack.accounts) :
       /\ Present(cfg.slack.accounts[i].botToken)
       /\ ~Present(cfg.slack.accounts[i].appToken)
  /\ ret.rows[4].state = "off"
  /\ ret.rows[4].detail = "disabled"
  /\ ret.rows[2].state = "ok"

\* An enabled Slack account with exactly one of its two tokens
SlackPartial ==
  \E i \in EnabledIn(cfg.slack.accounts) :
    Present(cfg.slack.accounts[i].botToken) # Present(cfg.slack.accounts[i].appToken)

\* An enabled Slack account with both tokens
SlackReady ==
  \E i \in EnabledIn(cfg.slack.accounts) :
    Present(cfg.slack.accounts[i].botToken) /\ Present(cfg.slack.accounts[i].appToken)

SlackAnyToken ==
  \E i \in EnabledIn(cfg.slack.accounts) :
    Present(cfg.slack.accounts[i].botToken) \/ Present(cfg.slack.accounts[i].appToken)

\* C2: with Slack enabled, the row is "warn", its detail starting "partial
\* tokens", exactly when some enabled account has exactly one of botToken and
\* appToken non-blank, even next to an enabled account that has both;
\* otherwise it is "ok" exactly when some enabled account has both;
\* otherwise it is "setup", and then no enabled account has a token.  The
\* tokens of disabled accounts play no part.
C2_SlackClassification ==
  ReportReturned /\ cfg.slack.enabled # Some(FALSE) =>
    LET row == ret.rows[4]
    IN  /\ row.provider = "Slack"
        /\ row.state = "warn" <=> SlackPartial
        /\ StartsWith(row.detail, "partial tokens") <=> SlackPartial
        /\ ~SlackPartial => (row.state = "ok" <=> SlackReady)
        /\ ~SlackPartial /\ ~SlackReady => row.state = "setup" /\ ~SlackAnyToken
        /\ row.state = "setup" => ~SlackAnyToken

\* C2 reached: one enabled account has both tokens, another enabled one has
\* a single token, and the row warns
C2_Witness ==
  /\ ReportReturned
  /\ cfg.slack.enabled # Some(FALSE)
  /\ SlackPartial
  /\ SlackReady
  /\ ret.rows[4].state = "warn"
  /\ ret.rows[4].detail = "partial tokens (need bot+app) · accounts 1"

\* C2 reached on its last sentence: the only partial account is disabled and
\* the row is "ok"
C2_WitnessDisabled ==
  /\ ReportReturned
  /\ cfg.slack.enabled # Some(FALSE)
  /\ ret.rows[4].state = "ok"
  /\ \E i \in 1..Len(cfg.slack.accounts) :
       /\ ~cfg.slack.accounts[i].enabled
       /\ Present(cfg.slack.accounts[i].botToken)
       /\ ~Present(cfg.slack.accounts[i].appToken)

\* The path an optional token-file entry declares, "" when it declares none
DeclaredPath(o) == IF Present(o) THEN Core(o[1]) ELSE ""

\* A token file is declared and the file system says it is not there
FileMissing(o) ==
  /\ Present(o)
  /\ DeclaredPath(o) \in DOMAIN ext.existsSync
  /\ ext.existsSync[DeclaredPath(o)] = "missing"

\* The keys of the token files a Telegram warning may name, in the order of
\* the claim: the global key, then the keys of the enabled accounts
TelegramMissingKeys ==
  (IF FileMissing(cfg.telegram.tokenFile) THEN <<"telegram.tokenFile">> ELSE <<>>)
  \o [i \in 1..Len(SelectSeq(cfg.telegram.accounts,
                              LAMBDA a : a.enabled /\ FileMissing(a.tokenFile))) |->
        "telegram.accounts."
        \o SelectSeq(cfg.telegram.accounts,
                     LAMBDA a : a.enabled /\ FileMissing(a.tokenFile))[i].accountId
        \o ".tokenFile"]

TelegramHasToken ==
  \E i \in EnabledIn(cfg.telegram.accounts) : Present(cfg.telegram.accounts[i].token)

\* C3 as stated: with Telegram enabled, the row is "warn" exactly when the
\* global token file, or the token file of an enabled account, is declared
\* and does not exist, and the detail then names the first such key, the
\* global one first; a token file declared only by a disabled account, or a
\* probe that answers null, never makes the row "warn"; when not "warn" the
\* row is "ok" exactly when an enabled account has a non-blank token, else
\* "setup".
C3_TelegramClassification ==
  ReportReturned /\ cfg.telegram.enabled # Some(FALSE) =>
    LET row == ret.rows[2]
    IN  /\ row.provider = "Telegram"
        /\ row.state = "warn" <=> TelegramMissingKeys # <<>>
        /\ row.state = "warn" =>
             row.detail = "token file missing (" \o TelegramMissingKeys[1] \o ")"
        /\ row.state # "warn" =>
             row.state = (IF TelegramHasToken THEN "ok" ELSE "setup")

\* The input C3 fails on: Telegram enabled, no missing token file but that of
\* a disabled account, and the row warns about it
C3_DisabledAccountWarns ==
  /\ ReportReturned
  /\ cfg.telegram.enabled # Some(FALSE)
  /\ TelegramMissingKeys = <<>>
  /\ \E i \in 1..Len(cfg.telegram.accounts) :
       /\ ~cfg.telegram.accounts[i].enabled
       /\ FileMissing(cfg.telegram.accounts[i].tokenFile)
  /\ ret.rows[2].state = "warn"
  /\ ret.rows[2].detail = "token file missing (telegram.accounts.old.tokenFile)"

\* A Microsoft Teams credential is there, in the configuration or in its
\* environment variable
TeamsPresent(key) ==
  \/ Present(cfg.msteams[key])
  \/ Present(ext.env[CASE key = "appId" -> "MSTEAMS_APP_ID"
                       [] key = "appPassword" -> "MSTEAMS_APP_PASSWORD"
                       [] key = "tenantId" -> "MSTEAMS_TENANT_ID"])

TeamsKeys == <<"appId", "appPassword", "tenantId">>

TeamsMissing == SelectSeq(TeamsKeys, LAMBDA k : ~TeamsPresent(k))

\* C4: with MS Teams enabled, the row is "ok" exactly when appId, appPassword
\* and tenantId are all present (non-blank in the configuration or in
\* MSTEAMS_APP_ID, MSTEAMS_APP_PASSWORD, MSTEAMS_TENANT_ID); "warn" exactly
\* when some but not all are, the detail listing the missing keys in that
\* order, never none; "setup" exactly when none is, the detail naming the
\* three requirements.
C4_TeamsClassification ==
  ReportReturned /\ cfg.msteams.enabled # Some(FALSE) =>
    LET row == ret.rows[7]
        n == 3 - Len(TeamsMissing)
    IN  /\ row.provider = "MS Teams"
        /\ row.state = "ok" <=> n = 3
        /\ row.state = "warn" <=> n \in {1, 2}
        /\ row.state = "setup" <=> n = 0
        /\ row.state = "warn" =>
             /\ TeamsMissing # <<>>
             /\ row.detail = "credentials incomplete (missing "
                             \o Join(TeamsMissing, ", ") \o ")"
        /\ row.state = "setup" =>
             row.detail = "no credentials (MSTEAMS_APP_ID / _PASSWORD / _TENANT_ID)"

\* C4 reached: a blank appId in the configuration is made up for by the
\* environment, and the two other keys are reported missing in order
C4_Witness ==
  /\ ReportReturned
  /\ cfg.msteams.enabled # Some(FALSE)
  /\ cfg.msteams.appId = Some("  ")
  /\ Present(ext.env.MSTEAMS_APP_ID)
  /\ ret.rows[7].state = "warn"
  /\ ret.rows[7].detail = "credentials incomplete (missing appPassword, tenantId)"

\* C5 as stated: a call of buildProvidersTable never ends in an exception;
\* it returns a report of seven rows whichever probe fails (webAuthExists,
\* getWebAuthAgeMs, the self-id read, a token-file check), and a failed
\* webAuthExists gives the WhatsApp row of an unlinked provider, "setup".
C5_NeverThrows ==
  fn = "buildProvidersTable" /\ pc # "call" =>
    /\ pc = "returned"
    /\ Len(ret.rows) = 7
    /\ cfg.web.enabled # Some(FALSE) /\ ext.webAuthExists = "rejects" =>
         ret.rows[1].state = "setup"

\* The input C5 fails on: the session is linked, the auth-age lookup or the
\* self-id read throws, and the call ends in that exception
C5_ProbeEndsCall ==
  /\ fn = "buildProvidersTable"
  /\ pc = "threw"
  /\ cfg.web.enabled # Some(FALSE)
  /\ ext.webAuthExists = "true"
  /\ ext.getWebAuthAgeMs.throws \/ ext.readWebSelfId.throws

\* The numbers a count in a detail may show
Counts == 0..(MaxAccounts + 1)

\* The detail ends with " · accounts n/d"
EndsWithCount(detail, n, d) ==
  EndsWith(detail, " · accounts " \o ToString(n) \o "/" \o ToString(d))

C10_ReportShape ==
  ReportReturned =>
    LET tables == {i \in 1..Len(ret.details) : ret.details[i].title = "WhatsApp accounts"}
        linked == cfg.web.enabled # Some(FALSE) /\ ext.webAuthExists = "true"
    IN  /\ Len(ret.rows) = 7
        /\ \A i \in 1..7 : ret.rows[i].provider = Providers[i]
        /\ \A i \in 1..Len(ret.details) : Len(ret.details[i].rows) >= 1
        /\ tables # {} <=> linked
        /\ linked <=> ret.rows[1].state = "ok"
        /\ Cardinality(tables) <= 1
        /\ \A i \in tables :
             IF cfg.whatsapp.accounts # <<>>
             THEN /\ Len(ret.details[i].rows) = Len(cfg.whatsapp.accounts)
                  /\ \A j \in 1..Len(cfg.whatsapp.accounts) :
                       StartsWith(ret.details[i].rows[j].Account,
                                  cfg.whatsapp.accounts[j].accountId)
             ELSE /\ Len(ret.details[i].rows) = 1
                  /\ StartsWith(ret.details[i].rows[1].Account,
                                cfg.whatsapp.defaultAccount.accountId)

\* C10 reached: a linked session without a listed account has the table
\* with the one row of the default account
C10_Witness ==
  /\ ReportReturned
  /\ cfg.whatsapp.accounts = <<>>
  /\ ret.rows[1].state = "ok"
  /\ Len(ret.details) = 1
  /\ Len(ret.details[1].rows) = 1
  /\ ret.details[1].rows[1].Account = "default"
====
